---- MODULE Spec2Model ----
(***************************************************************************)
(* FedCausalFHE: the contract contracts/FedCausalFHE.sol and the handlers  *)
(* of the dashboard frontend/web/src/App.tsx over the generic key/value    *)
(* store.  The two parts share no state (the dashboard never calls the     *)
(* contract's dataset functions), so each has its own specification:       *)
(*   Spec     the contract                                                 *)
(*   AppSpec  the dashboard's handlers, interleaved at their await points  *)
(*   EncSpec  the encoding step of submitData as a pure function           *)
(***************************************************************************)
EXTENDS Integers, Sequences, FiniteSets, TLC

(***************************************************************************)
(* Bounds of the model.                                                    *)
(***************************************************************************)
MaxDatasets == 1
MaxRequests == 2
\* longest variables / description text of a form value in EncSpec
MaxVariablesLen == 2
MaxDescriptionLen == 1
\* handler invocations (with their timers) in flight at once, and records submitted
MaxProcs == 2
MaxSubmissions == 2

(***************************************************************************)
(* Program constants.                                                      *)
(***************************************************************************)
CompositeBase == 10
MaxComponent == 2

VARIABLES
    datasetCount,        \* uint256 public datasetCount
    encryptedDatasets,   \* mapping(uint256 => EncryptedDataset)
    decryptedDatasets,   \* mapping(uint256 => DecryptedDataset)
    causalModels,        \* mapping(uint256 => CausalModel)
    requestToDatasetId,  \* mapping(uint256 => uint256), private
    counterRequest,      \* the request id FHE.requestDecryption hands out next
    events,              \* the log: the set of events emitted so far
    issued,              \* history: which call issued each request id
    decryptedEmits,      \* history: how often DatasetDecrypted(d) was emitted
    submitter,           \* history: msg.sender of the submitEncryptedDataset of each id
    encInput,            \* EncSpec: the form value (newData) handed to the encoding step
    encOutput,           \* EncSpec: what the encoding step produced, or that it threw
    store,               \* the key/value store behind contract.getData / setData
    provider,            \* useState provider: TRUE when non-null
    account,             \* useState account
    submitting,          \* useState submitting
    transactionStatus,   \* useState transactionStatus
    causalData,          \* useState causalData
    isRefreshing,        \* useState isRefreshing
    loading,             \* useState loading
    procs                \* the handler invocations in flight, each at an await or timer

contractVars == <<datasetCount, encryptedDatasets, decryptedDatasets, causalModels,
                  requestToDatasetId, counterRequest, events, issued,
                  decryptedEmits, submitter>>

storage == <<datasetCount, encryptedDatasets, decryptedDatasets, causalModels,
             requestToDatasetId>>

encVars == <<encInput, encOutput>>

appVars == <<store, provider, account, submitting, transactionStatus,
             causalData, isRefreshing, loading, procs>>

vars == <<contractVars, encVars, appVars>>

\* a step of one part leaves the state of the other parts alone
ContractFrame == UNCHANGED <<encVars, appVars>>
EncFrame == UNCHANGED <<contractVars, appVars>>
AppFrame == UNCHANGED <<contractVars, encVars>>

(***************************************************************************)
(* The encoding step of submitData:                                        *)
(*     `FHE-${btoa(JSON.stringify(newData))}`                              *)
(* Text is a sequence of UTF-16 code units.  btoa throws on a code unit    *)
(* above 255 and otherwise yields the padded base64 text of the bytes.     *)
(***************************************************************************)
\* the code units the form's text fields are drawn from:
\* '"' (34), '\' (92), line feed (10), 'a' (97), 'y' with diaeresis (255),
\* 'A' with macron (256, not Latin-1)
Chars == {34, 92, 10, 97, 255, 256}

RECURSIVE TextsUpTo(_)
TextsUpTo(n) ==
    IF n = 0 THEN {<<>>}
    ELSE LET shorter == TextsUpTo(n - 1) IN
         shorter \cup {Append(t, c) : t \in shorter, c \in Chars}

\* JSON.stringify of one code unit inside a string literal
JSONEscape(c) ==
    IF c = 34 THEN <<92, 34>>
    ELSE IF c = 92 THEN <<92, 92>>
    ELSE IF c = 10 THEN <<92, 110>>
    ELSE <<c>>

RECURSIVE JSONEscapeText(_)
JSONEscapeText(t) ==
    IF t = <<>> THEN <<>> ELSE JSONEscape(Head(t)) \o JSONEscapeText(Tail(t))

\* JSON.stringify(newData) for newData = {variables, description}:
\* {"variables":"...","description":"..."}
JSONstringifyForm(f) ==
    <<123, 34, 118, 97, 114, 105, 97, 98, 108, 101, 115, 34, 58, 34>>
    \o JSONEscapeText(f.variables)
    \o <<34, 44, 34, 100, 101, 115, 99, 114, 105, 112, 116, 105, 111, 110, 34, 58, 34>>
    \o JSONEscapeText(f.description)
    \o <<34, 125>>

\* the base64 alphabet: A-Z a-z 0-9 + /
B64Char(i) ==
    IF i < 26 THEN 65 + i
    ELSE IF i < 52 THEN 97 + (i - 26)
    ELSE IF i < 62 THEN 48 + (i - 52)
    ELSE IF i = 62 THEN 43
    ELSE 47

B64Index(c) ==
    IF c >= 65 /\ c <= 90 THEN c - 65
    ELSE IF c >= 97 /\ c <= 122 THEN c - 97 + 26
    ELSE IF c >= 48 /\ c <= 57 THEN c - 48 + 52
    ELSE IF c = 43 THEN 62
    ELSE 63

RECURSIVE B64Encode(_)
B64Encode(b) ==
    IF Len(b) = 0 THEN <<>>
    ELSE IF Len(b) = 1 THEN
        <<B64Char(b[1] \div 4), B64Char((b[1] % 4) * 16), 61, 61>>
    ELSE IF Len(b) = 2 THEN
        <<B64Char(b[1] \div 4), B64Char((b[1] % 4) * 16 + b[2] \div 16),
          B64Char((b[2] % 16) * 4), 61>>
    ELSE
        <<B64Char(b[1] \div 4), B64Char((b[1] % 4) * 16 + b[2] \div 16),
          B64Char((b[2] % 16) * 4 + b[3] \div 64), B64Char(b[3] % 64)>>
        \o B64Encode(SubSeq(b, 4, Len(b)))

\* atob on well-formed padded base64 text
RECURSIVE B64Decode(_)
B64Decode(s) ==
    IF Len(s) < 4 THEN <<>>
    ELSE LET i1 == B64Index(s[1])
             i2 == B64Index(s[2])
             i3 == B64Index(s[3])
             i4 == B64Index(s[4])
             rest == B64Decode(SubSeq(s, 5, Len(s)))
         IN  IF s[3] = 61 THEN <<i1 * 4 + i2 \div 16>> \o rest
             ELSE IF s[4] = 61 THEN
                 <<i1 * 4 + i2 \div 16, (i2 % 16) * 16 + i3 \div 4>> \o rest
             ELSE <<i1 * 4 + i2 \div 16, (i2 % 16) * 16 + i3 \div 4,
                    (i3 % 4) * 64 + i4>> \o rest

\* btoa(text): throws InvalidCharacterError on a code unit outside Latin-1
btoa(t) ==
    IF \E i \in 1 .. Len(t) : t[i] > 255 THEN <<"throw">>
    ELSE <<"ok", B64Encode(t)>>

\* "FHE-"
FHEPrefix == <<70, 72, 69, 45>>

\* the encoding with the variables text alone, not the JSON of the form value
EncryptVariablesOnly(f) ==
    LET b == btoa(f.variables) IN
    IF b[1] = "throw" THEN b ELSE <<"ok", FHEPrefix \o b[2]>>

\* const encryptedData = `FHE-${btoa(JSON.stringify(newData))}`
EncryptForm(f) ==
    LET b == btoa(JSONstringifyForm(f)) IN
    IF b[1] = "throw" THEN b ELSE <<"ok", FHEPrefix \o b[2]>>

\* what a reader of the store does to get the text back
StripPrefix(t) == SubSeq(t, Len(FHEPrefix) + 1, Len(t))

EncForms ==
    [variables : TextsUpTo(MaxVariablesLen), description : TextsUpTo(MaxDescriptionLen)]

EncInit ==
    /\ encInput \in EncForms
    /\ encOutput = <<"none">>

EncIdle ==
    /\ encInput = [variables |-> <<>>, description |-> <<>>]
    /\ encOutput = <<"none">>

EncodeStep ==
    /\ encOutput = <<"none">>
    /\ encOutput' = EncryptForm(encInput)
    /\ UNCHANGED encInput
    /\ EncFrame

(***************************************************************************)
(* Value domains of the inputs.                                            *)
(***************************************************************************)
Callers == {"alice", "bob"}
\* dataset ids a caller may name: 0 (never assigned) and 1 (submitted or not yet)
ArgIds == {0, 1}
\* keys of the uint256 mappings the model can touch: the ids and their composites
Keys == 0 .. (CompositeBase + MaxComponent)
RequestIds == 0 .. MaxRequests
Components == 0 .. (MaxComponent + 1)
\* euint32 handles; 0 is the uninitialized handle
DatasetInputs == {<<1, 2, 3>>}
ModelInputs == {<<0, 7, 7>>, <<1, 2, 3>>}
Timestamps == {100}
Cleartexts == {<<"a", "b", "c">>}

ZeroEncrypted == [id |-> 0, encryptedVariables |-> 0, encryptedObservations |-> 0,
                  encryptedMetadata |-> 0, timestamp |-> 0]
ZeroDecrypted == [variables |-> "", observations |-> "", metadata |-> "",
                  isRevealed |-> FALSE]
ZeroModel == [encryptedGraphStructure |-> 0, encryptedCausalEffects |-> 0,
              encryptedConfidenceScores |-> 0]

\* FHE.isInitialized(handle)
isInitialized(h) == h # 0

\* hasCausalModel(datasetId)
hasCausalModel(d) == isInitialized(causalModels[d].encryptedGraphStructure)

\* getDecryptedDataset(datasetId)
getDecryptedDataset(d) ==
    <<decryptedDatasets[d].variables, decryptedDatasets[d].observations,
      decryptedDatasets[d].metadata, decryptedDatasets[d].isRevealed>>

\* modifier onlyDataOwner(datasetId) { _; }
onlyDataOwner(sender, d) == TRUE

\* the composite with the component count as the base, not 10
CompositeNarrow(d, c) == d * MaxComponent + c

\* datasetId * 10 + modelComponent
Composite(d, c) == d * CompositeBase + c

\* compositeId / 10
CompositeDataset(k) == k \div CompositeBase

\* uint8(compositeId % 10)
CompositeComponent(k) == k % CompositeBase

ContractInit ==
    /\ datasetCount = 0
    /\ encryptedDatasets = [k \in Keys |-> ZeroEncrypted]
    /\ decryptedDatasets = [k \in Keys |-> ZeroDecrypted]
    /\ causalModels = [k \in Keys |-> ZeroModel]
    /\ requestToDatasetId = [r \in RequestIds |-> 0]
    /\ counterRequest = 0
    /\ events = {}
    /\ issued = [r \in RequestIds |-> <<"none">>]
    /\ decryptedEmits = [k \in Keys |-> 0]
    /\ submitter = [k \in Keys |-> "nobody"]

(***************************************************************************)
(* The outcome of each call as the code decides it: "ok", or the reason of *)
(* the require/revert that fires first.  A reverted transaction changes    *)
(* nothing: no storage, no event.                                          *)
(***************************************************************************)
Reverts == UNCHANGED contractVars

\* submitEncryptedDataset taking newId before datasetCount is incremented
submitEncryptedDatasetStaleId(sender, enc, ts) ==
    /\ datasetCount < MaxDatasets
    /\ LET newId == datasetCount IN
        /\ datasetCount' = datasetCount + 1
        /\ encryptedDatasets' = [encryptedDatasets EXCEPT ![newId] =
               [id |-> newId, encryptedVariables |-> enc[1],
                encryptedObservations |-> enc[2], encryptedMetadata |-> enc[3],
                timestamp |-> ts]]
        /\ decryptedDatasets' = [decryptedDatasets EXCEPT ![newId] = ZeroDecrypted]
        /\ submitter' = [submitter EXCEPT ![newId] = sender]
        /\ events' = events \cup {<<"DatasetSubmitted", newId, ts>>}
    /\ UNCHANGED <<causalModels, requestToDatasetId, counterRequest, issued,
                   decryptedEmits>>
    /\ ContractFrame

submitEncryptedDataset(sender, enc, ts) ==
    /\ datasetCount < MaxDatasets
    /\ LET newId == datasetCount + 1 IN
        /\ datasetCount' = newId
        /\ encryptedDatasets' = [encryptedDatasets EXCEPT ![newId] =
               [id |-> newId, encryptedVariables |-> enc[1],
                encryptedObservations |-> enc[2], encryptedMetadata |-> enc[3],
                timestamp |-> ts]]
        /\ decryptedDatasets' = [decryptedDatasets EXCEPT ![newId] = ZeroDecrypted]
        /\ submitter' = [submitter EXCEPT ![newId] = sender]
        /\ events' = events \cup {<<"DatasetSubmitted", newId, ts>>}
    /\ UNCHANGED <<causalModels, requestToDatasetId, counterRequest, issued,
                   decryptedEmits>>
    /\ ContractFrame

requestDatasetDecryptionOutcome(sender, d) ==
    IF ~onlyDataOwner(sender, d) THEN "onlyDataOwner"
    ELSE IF decryptedDatasets[d].isRevealed THEN "Already decrypted"
    ELSE "ok"

requestDatasetDecryption(sender, d) ==
    /\ counterRequest < MaxRequests
    /\ IF requestDatasetDecryptionOutcome(sender, d) # "ok" THEN Reverts
       ELSE /\ requestToDatasetId' = [requestToDatasetId EXCEPT ![counterRequest] = d]
            /\ issued' = [issued EXCEPT ![counterRequest] = <<"dataset", d>>]
            /\ counterRequest' = counterRequest + 1
            /\ events' = events \cup {<<"DecryptionRequested", d>>}
            /\ UNCHANGED <<datasetCount, encryptedDatasets, decryptedDatasets,
                           causalModels, decryptedEmits, submitter>>
    /\ ContractFrame

\* decryptDataset without its "Invalid request" require
decryptDatasetAnyRequest(requestId, valid) ==
    LET datasetId == requestToDatasetId[requestId] IN
    IF decryptedDatasets[datasetId].isRevealed THEN "Already decrypted"
    ELSE IF ~valid THEN "checkSignatures"
    ELSE "ok"

\* decryptDataset without its "Already decrypted" require
decryptDatasetUnguarded(requestId, valid) ==
    LET datasetId == requestToDatasetId[requestId] IN
    IF datasetId = 0 THEN "Invalid request"
    ELSE IF ~valid THEN "checkSignatures"
    ELSE "ok"

\* valid: FHE.checkSignatures accepts and abi.decode yields three strings
decryptDatasetOutcome(requestId, valid) ==
    LET datasetId == requestToDatasetId[requestId] IN
    IF datasetId = 0 THEN "Invalid request"
    ELSE IF decryptedDatasets[datasetId].isRevealed THEN "Already decrypted"
    ELSE IF ~valid THEN "checkSignatures"
    ELSE "ok"

decryptDataset(requestId, results, valid) ==
    /\ LET datasetId == requestToDatasetId[requestId] IN
       IF decryptDatasetOutcome(requestId, valid) # "ok" THEN Reverts
       ELSE /\ decryptedDatasets' = [decryptedDatasets EXCEPT ![datasetId] =
                   [variables |-> results[1], observations |-> results[2],
                    metadata |-> results[3], isRevealed |-> TRUE]]
            /\ decryptedEmits' = [decryptedEmits EXCEPT ![datasetId] = @ + 1]
            /\ events' = events \cup {<<"DatasetDecrypted", datasetId>>}
            /\ UNCHANGED <<datasetCount, encryptedDatasets, causalModels,
                           requestToDatasetId, counterRequest, issued, submitter>>
    /\ ContractFrame

\* requestCausalInference that looks at datasetId itself, not at the stored id
requestCausalInferenceNonZero(sender, d) ==
    IF ~onlyDataOwner(sender, d) THEN "onlyDataOwner"
    ELSE IF d = 0 THEN "Dataset not found"
    ELSE "ok"

requestCausalInferenceOutcome(sender, d) ==
    IF ~onlyDataOwner(sender, d) THEN "onlyDataOwner"
    ELSE IF encryptedDatasets[d].id = 0 THEN "Dataset not found"
    ELSE "ok"

requestCausalInference(sender, d) ==
    /\ IF requestCausalInferenceOutcome(sender, d) # "ok" THEN Reverts
       ELSE /\ events' = events \cup {<<"InferenceRequested", d>>}
            /\ UNCHANGED <<storage, counterRequest, issued, decryptedEmits, submitter>>
    /\ ContractFrame

submitCausalModel(d, m) ==
    /\ causalModels' = [causalModels EXCEPT ![d] =
           [encryptedGraphStructure |-> m[1], encryptedCausalEffects |-> m[2],
            encryptedConfidenceScores |-> m[3]]]
    /\ events' = events \cup {<<"ModelGenerated", d>>}
    /\ UNCHANGED <<datasetCount, encryptedDatasets, decryptedDatasets,
                   requestToDatasetId, counterRequest, issued, decryptedEmits,
                   submitter>>
    /\ ContractFrame

\* requestModelDecryption without the else branch that reverts
requestModelDecryptionAnyComponent(sender, d, c) ==
    IF ~onlyDataOwner(sender, d) THEN "onlyDataOwner"
    ELSE IF ~hasCausalModel(d) THEN "No model available"
    ELSE "ok"

requestModelDecryptionOutcome(sender, d, c) ==
    IF ~onlyDataOwner(sender, d) THEN "onlyDataOwner"
    ELSE IF ~hasCausalModel(d) THEN "No model available"
    ELSE IF c > MaxComponent THEN "Invalid model component"
    ELSE "ok"

requestModelDecryption(sender, d, c) ==
    /\ counterRequest < MaxRequests
    /\ IF requestModelDecryptionOutcome(sender, d, c) # "ok" THEN Reverts
       ELSE /\ requestToDatasetId' =
                   [requestToDatasetId EXCEPT ![counterRequest] = Composite(d, c)]
            /\ issued' = [issued EXCEPT ![counterRequest] = <<"model", d, c>>]
            /\ counterRequest' = counterRequest + 1
            /\ UNCHANGED <<datasetCount, encryptedDatasets, decryptedDatasets,
                           causalModels, events, decryptedEmits, submitter>>
    /\ ContractFrame

\* the locals decryptModelComponent derives: datasetId and modelComponent
decryptModelComponentLocals(requestId) ==
    LET compositeId == requestToDatasetId[requestId] IN
    <<CompositeDataset(compositeId), CompositeComponent(compositeId)>>

\* valid: FHE.checkSignatures accepts and abi.decode yields a string.  The
\* locals and the decoded result are dropped: the call stores and emits nothing.
decryptModelComponent(requestId, valid) ==
    /\ decryptModelComponentLocals(requestId) \in Nat \X Nat
    /\ UNCHANGED contractVars
    /\ ContractFrame

ContractNext ==
    \/ \E s \in Callers, enc \in DatasetInputs, ts \in Timestamps :
           submitEncryptedDataset(s, enc, ts)
    \/ \E s \in Callers, d \in ArgIds : requestDatasetDecryption(s, d)
    \/ \E r \in RequestIds, res \in Cleartexts, valid \in BOOLEAN :
           decryptDataset(r, res, valid)
    \/ \E s \in Callers, d \in ArgIds : requestCausalInference(s, d)
    \/ \E d \in ArgIds, m \in ModelInputs : submitCausalModel(d, m)
    \/ \E s \in Callers, d \in ArgIds, c \in Components : requestModelDecryption(s, d, c)
    \/ \E r \in RequestIds, valid \in BOOLEAN : decryptModelComponent(r, valid)

(***************************************************************************)
(* The dashboard (App.tsx).  One App instance; its async handlers          *)
(* interleave at their awaits.  A handler invocation holds a slot of procs *)
(* from the click until its closing setTimeout callback has run.           *)
(***************************************************************************)
ProcIds == 1 .. MaxProcs
\* a data id stands for `${Date.now()}-${Math.random()...}`; ids never repeat
DataIds == 1 .. MaxSubmissions
Accounts == {"0xAA"}
AppTimestamps == {100}
\* `FHE-Proof-${Math.random().toString(36).substring(2, 10)}`
Proofs == {"FHE-Proof-r1", "FHE-Proof-r2"}
\* the form values the user can have typed when Submit is clicked
AppForms == {[variables |-> <<97>>, description |-> <<>>],
             [variables |-> <<256>>, description |-> <<>>]}

KeysKey == <<"data_keys">>
DataKey(id) == <<"data_", id>>
StoreKeys == {KeysKey} \cup {DataKey(i) : i \in DataIds}

Undefined == "<undefined>"

\* String.prototype.toLowerCase on the account strings of the model
toLowerCase(a) == IF a = "0xAA" THEN "0xaa" ELSE a

\* isInstitution(address)
isInstitution(address) == toLowerCase(account) = toLowerCase(address)

\* A JS object is the sequence of its <<name, value>> pairs in insertion
\* order.  The stored bytes are the JSON text, token by token: "{" and then
\* name, value, name, value ...; an array is "[" and then its elements.
RECURSIVE Flatten(_)
Flatten(obj) ==
    IF obj = <<>> THEN <<>> ELSE <<Head(obj)[1], Head(obj)[2]>> \o Flatten(Tail(obj))

RECURSIVE Regroup(_)
Regroup(tokens) ==
    IF Len(tokens) < 2 THEN <<>>
    ELSE <<<<tokens[1], tokens[2]>>>> \o Regroup(SubSeq(tokens, 3, Len(tokens)))

\* ethers.toUtf8Bytes(JSON.stringify(object))
JSONstringify(obj) == <<"{">> \o Flatten(obj)
\* ethers.toUtf8Bytes(JSON.stringify(array))
JSONstringifyArray(a) == <<"[">> \o a
\* JSON.parse(ethers.toUtf8String(bytes))
JSONparse(bytes) ==
    IF Head(bytes) = "{" THEN Regroup(Tail(bytes)) ELSE Tail(bytes)

\* object.name
Get(obj, name) ==
    IF \E i \in 1 .. Len(obj) : obj[i][1] = name
    THEN obj[CHOOSE i \in 1 .. Len(obj) : obj[i][1] = name][2]
    ELSE Undefined

\* { ...obj, name: value }
With(obj, name, value) ==
    IF \E i \in 1 .. Len(obj) : obj[i][1] = name
    THEN [i \in 1 .. Len(obj) |-> IF obj[i][1] = name THEN <<name, value>> ELSE obj[i]]
    ELSE Append(obj, <<name, value>>)

\* value || fallback, for a string or undefined value
OrElse(value, fallback) == IF value = Undefined \/ value = "" THEN fallback ELSE value

\* the keys list read from data_keys: [] when the bytes are empty
ParseKeys(bytes) == IF Len(bytes) > 0 THEN JSONparse(bytes) ELSE <<>>

\* list.sort((a, b) => b.timestamp - a.timestamp): stable, newest first
RECURSIVE InsertByTimestamp(_, _)
InsertByTimestamp(sorted, row) ==
    IF sorted = <<>> THEN <<row>>
    ELSE IF Head(sorted).timestamp >= row.timestamp
         THEN <<Head(sorted)>> \o InsertByTimestamp(Tail(sorted), row)
         ELSE <<row>> \o sorted

RECURSIVE SortByTimestamp(_)
SortByTimestamp(list) ==
    IF list = <<>> THEN <<>>
    ELSE InsertByTimestamp(SortByTimestamp(SubSeq(list, 1, Len(list) - 1)),
                           list[Len(list)])

\* the row loadData pushes for a key and the object parsed from its bytes
Row(key, data) ==
    [id |-> key,
     encryptedVariables |-> Get(data, "variables"),
     timestamp |-> Get(data, "timestamp"),
     institution |-> Get(data, "institution"),
     status |-> OrElse(Get(data, "status"), "pending"),
     fheProof |-> OrElse(Get(data, "fheProof"), "")]

\* the record without its status field
SubmitRecordNoStatus(enc, ts, acct) ==
    <<<<"variables", enc>>, <<"timestamp", ts>>, <<"institution", acct>>>>

\* the object submitData stores under data_<id>
SubmitRecord(enc, ts, acct) ==
    <<<<"variables", enc>>, <<"timestamp", ts>>, <<"institution", acct>>,
      <<"status", "pending">>>>

\* an analyzed record rebuilt from scratch instead of spread from data
AnalyzedRecordFresh(data, proof) == <<<<"status", "analyzed">>, <<"fheProof", proof>>>>

\* the object analyzeData writes back: { ...data, status, fheProof }
AnalyzedRecord(data, proof) == With(With(data, "status", "analyzed"), "fheProof", proof)

\* transactionStatus without its message text
Hidden == [visible |-> FALSE, status |-> "pending"]
Status(st, msg) == [visible |-> TRUE, status |-> st]

IdleProc == [kind |-> "idle", pc |-> "idle", id |-> 0, enc |-> <<>>, acct |-> "",
             keys |-> <<>>, data |-> <<>>, list |-> <<>>, idx |-> 0]
\* a handler that has returned and left its setTimeout callback pending
TimerProc == [IdleProc EXCEPT !.kind = "timer", !.pc = "timer"]

FreeSlots == {p \in ProcIds : procs[p].kind = "idle"}
\* a new invocation takes the lowest free slot
NewSlot == CHOOSE p \in FreeSlots : \A q \in FreeSlots : p <= q

\* ids in use: as a key of the store or held by a submitData in flight
UsedIds == {i \in DataIds : store[DataKey(i)] # <<>>}
FreshIds == DataIds \ UsedIds
NextDataId == CHOOSE i \in FreshIds : \A j \in FreshIds : i <= j

AppInit ==
    /\ store = [k \in StoreKeys |-> <<>>]
    /\ provider = FALSE
    /\ account = ""
    /\ submitting = FALSE
    /\ transactionStatus = Hidden
    /\ causalData = <<>>
    \* useEffect(() => { loadData()... }, []) has started the first load
    /\ isRefreshing = TRUE
    /\ loading = TRUE
    /\ procs = [p \in ProcIds |->
                  IF p = 1 THEN [IdleProc EXCEPT !.kind = "load", !.pc = "loadKeys"]
                  ELSE IdleProc]

AppIdle ==
    /\ store = [k \in StoreKeys |-> <<>>]
    /\ provider = FALSE
    /\ account = ""
    /\ submitting = FALSE
    /\ transactionStatus = Hidden
    /\ causalData = <<>>
    /\ isRefreshing = FALSE
    /\ loading = FALSE
    /\ procs = [p \in ProcIds |-> IdleProc]

(***************************************************************************)
(* Wallet.                                                                 *)
(***************************************************************************)
\* onWalletSelect: setProvider, then eth_requestAccounts, which the wallet
\* answers with the account acc
onWalletSelect(acc) ==
    /\ ~loading
    /\ provider' = TRUE
    /\ account' = acc
    /\ UNCHANGED <<store, submitting, transactionStatus, causalData, isRefreshing,
                   loading, procs>>
    /\ AppFrame

\* the accountsChanged listener onWalletSelect registers on the wallet; it
\* stays registered after onDisconnect
accountsChanged(acc) ==
    /\ ~loading
    /\ account' = acc
    /\ UNCHANGED <<store, provider, submitting, transactionStatus,
                   causalData, isRefreshing, loading, procs>>
    /\ AppFrame

onDisconnect ==
    /\ ~loading
    /\ account' = ""
    /\ provider' = FALSE
    /\ UNCHANGED <<store, submitting, transactionStatus, causalData,
                   isRefreshing, loading, procs>>
    /\ AppFrame

(***************************************************************************)
(* loadData, on its own (mount, Refresh) or as the tail of submitData and  *)
(* analyzeData.  When it returns, its caller runs on in the same step.     *)
(***************************************************************************)
\* what follows `await loadData()` in the caller, up to its next wait
AfterLoad(p) ==
    /\ procs' = [procs EXCEPT ![p] =
           IF procs[p].kind = "load" THEN IdleProc ELSE TimerProc]
    /\ submitting' = IF procs[p].kind = "submit" THEN FALSE ELSE submitting

\* the Refresh button
loadDataClick ==
    /\ ~loading
    /\ ~isRefreshing
    /\ FreeSlots # {}
    /\ isRefreshing' = TRUE
    /\ procs' = [procs EXCEPT ![NewSlot] =
                    [IdleProc EXCEPT !.kind = "load", !.pc = "loadKeys"]]
    /\ UNCHANGED <<store, provider, account, submitting,
                   transactionStatus, causalData, loading>>
    /\ AppFrame

\* getContractReadOnly, isAvailable and getData("data_keys").  ok = none of
\* them failed; otherwise loadData returns through its finally.
loadKeys(p, ok) ==
    /\ procs[p].pc = "loadKeys"
    /\ LET keys == ParseKeys(store[KeysKey]) IN
       IF ~ok THEN
           /\ AfterLoad(p)
           /\ UNCHANGED causalData
       ELSE IF keys = <<>> THEN
           /\ AfterLoad(p)
           /\ causalData' = <<>>
       ELSE
           /\ procs' = [procs EXCEPT ![p] =
                  [@ EXCEPT !.pc = "loadItem", !.keys = keys, !.list = <<>>, !.idx = 1]]
           /\ UNCHANGED <<causalData, submitting>>
    /\ isRefreshing' = IF ~ok \/ ParseKeys(store[KeysKey]) = <<>> THEN FALSE
                       ELSE isRefreshing
    /\ loading' = IF ~ok \/ ParseKeys(store[KeysKey]) = <<>> THEN FALSE ELSE loading
    /\ UNCHANGED <<store, provider, account, transactionStatus>>
    /\ AppFrame

\* one turn of the loop: getData(`data_${key}`); ok = it did not throw
loadItem(p, ok) ==
    /\ procs[p].pc = "loadItem"
    /\ LET key == procs[p].keys[procs[p].idx]
           bytes == store[DataKey(key)]
           list == IF ok /\ Len(bytes) > 0
                   THEN Append(procs[p].list, Row(key, JSONparse(bytes)))
                   ELSE procs[p].list
       IN IF procs[p].idx < Len(procs[p].keys) THEN
              /\ procs' = [procs EXCEPT ![p] =
                     [@ EXCEPT !.list = list, !.idx = @ + 1]]
              /\ UNCHANGED <<causalData, isRefreshing, loading, submitting>>
          ELSE
              /\ causalData' = SortByTimestamp(list)
              /\ isRefreshing' = FALSE
              /\ loading' = FALSE
              /\ AfterLoad(p)
    /\ UNCHANGED <<store, provider, account, transactionStatus>>
    /\ AppFrame

(***************************************************************************)
(* submitData.                                                             *)
(***************************************************************************)
\* the catch and finally of submitData
SubmitFails(p, msg) ==
    /\ transactionStatus' = Status("error", msg)
    /\ submitting' = FALSE
    /\ procs' = [procs EXCEPT ![p] = TimerProc]

\* a provider check that lets a call without a wallet through
NoProviderCheck == TRUE

\* no-wallet guard of submitData: the provider check
submitDataGuard == provider

\* the Submit button of the modal (handleSubmit, then submitData up to its
\* first await); form is newData as typed
submitData(form) ==
    /\ ~loading
    /\ ~submitting
    /\ form.variables # <<>>
    /\ FreeSlots # {}
    /\ IF ~submitDataGuard THEN UNCHANGED appVars
       ELSE LET e == EncryptForm(form) IN
            /\ IF e[1] = "throw" THEN SubmitFails(NewSlot, "Submission failed: btoa")
               ELSE /\ submitting' = TRUE
                    /\ transactionStatus' =
                           Status("pending", "Encrypting variables with FHE...")
                    /\ procs' = [procs EXCEPT ![NewSlot] =
                           [IdleProc EXCEPT !.kind = "submit", !.pc = "submitSetData",
                                            !.enc = e[2], !.acct = account]]
            /\ UNCHANGED <<store, provider, account, causalData,
                           isRefreshing, loading>>
    /\ AppFrame

\* getContractWithSigner, then setData(`data_${dataId}`, ...); ok = both succeeded
submitSetData(p, ts, ok) ==
    /\ procs[p].pc = "submitSetData"
    /\ IF ~ok THEN
           /\ SubmitFails(p, "Transaction rejected by user")
           /\ UNCHANGED store
       ELSE
           /\ FreshIds # {}
           /\ store' = [store EXCEPT ![DataKey(NextDataId)] =
                  JSONstringify(SubmitRecord(procs[p].enc, ts, procs[p].acct))]
           /\ procs' = [procs EXCEPT ![p] =
                  [@ EXCEPT !.pc = "submitGetKeys", !.id = NextDataId]]
           /\ UNCHANGED <<submitting, transactionStatus>>
    /\ UNCHANGED <<provider, account, causalData, isRefreshing, loading>>
    /\ AppFrame

\* getData("data_keys"), then keys.push(dataId); ok = the read succeeded
submitGetKeys(p, ok) ==
    /\ procs[p].pc = "submitGetKeys"
    /\ IF ~ok THEN SubmitFails(p, "Submission failed: getData")
       ELSE /\ procs' = [procs EXCEPT ![p] =
                   [@ EXCEPT !.pc = "submitSetKeys",
                             !.keys = Append(ParseKeys(store[KeysKey]), procs[p].id)]]
            /\ UNCHANGED <<submitting, transactionStatus>>
    /\ UNCHANGED <<store, provider, account, causalData, isRefreshing,
                   loading>>
    /\ AppFrame

\* setData("data_keys", ...), then the success status and the call of loadData
submitSetKeys(p, ok) ==
    /\ procs[p].pc = "submitSetKeys"
    /\ IF ~ok THEN
           /\ SubmitFails(p, "Transaction rejected by user")
           /\ UNCHANGED <<store, isRefreshing>>
       ELSE
           /\ store' = [store EXCEPT ![KeysKey] = JSONstringifyArray(procs[p].keys)]
           /\ transactionStatus' = Status("success", "Variables encrypted and submitted!")
           /\ isRefreshing' = TRUE
           /\ procs' = [procs EXCEPT ![p] = [@ EXCEPT !.pc = "loadKeys", !.keys = <<>>]]
           /\ UNCHANGED submitting
    /\ UNCHANGED <<provider, account, causalData, loading>>
    /\ AppFrame

(***************************************************************************)
(* analyzeData.                                                            *)
(***************************************************************************)
\* the catch of analyzeData
AnalyzeFails(p, msg) ==
    /\ transactionStatus' = Status("error", msg)
    /\ procs' = [procs EXCEPT ![p] = TimerProc]

\* no-wallet guard of analyzeData: the provider check
analyzeDataGuard == provider

\* the Analyze button of a row, shown for a pending row of the own institution
analyzeData(id) ==
    /\ ~loading
    /\ \E i \in 1 .. Len(causalData) :
           /\ causalData[i].id = id
           /\ isInstitution(causalData[i].institution)
           /\ causalData[i].status = "pending"
    /\ FreeSlots # {}
    /\ IF ~analyzeDataGuard THEN UNCHANGED appVars
       ELSE /\ transactionStatus' = Status("pending", "Running FHE causal analysis...")
            /\ procs' = [procs EXCEPT ![NewSlot] =
                   [IdleProc EXCEPT !.kind = "analyze", !.pc = "analyzeGetData",
                                    !.id = id]]
            /\ UNCHANGED <<store, provider, account, submitting, causalData,
                           isRefreshing, loading>>
    /\ AppFrame

\* the 3 s wait, getContractWithSigner and getData(`data_${dataId}`); then
\* updatedData is built and setData is called.  ok = nothing threw
analyzeGetData(p, proof, ok) ==
    /\ procs[p].pc = "analyzeGetData"
    /\ LET bytes == store[DataKey(procs[p].id)] IN
       IF ~ok THEN AnalyzeFails(p, "Analysis failed: getData")
       ELSE IF Len(bytes) = 0 THEN AnalyzeFails(p, "Analysis failed: Data not found")
       ELSE /\ procs' = [procs EXCEPT ![p] =
                   [@ EXCEPT !.pc = "analyzeSetData",
                             !.data = AnalyzedRecord(JSONparse(bytes), proof)]]
            /\ UNCHANGED transactionStatus
    /\ UNCHANGED <<store, provider, account, submitting, causalData,
                   isRefreshing, loading>>
    /\ AppFrame

\* setData(`data_${dataId}`, updatedData), the success status and loadData
analyzeSetData(p, ok) ==
    /\ procs[p].pc = "analyzeSetData"
    /\ IF ~ok THEN
           /\ AnalyzeFails(p, "Analysis failed: rejected")
           /\ UNCHANGED <<store, isRefreshing>>
       ELSE
           /\ store' = [store EXCEPT ![DataKey(procs[p].id)] =
                  JSONstringify(procs[p].data)]
           /\ transactionStatus' = Status("success", "FHE analysis completed!")
           /\ isRefreshing' = TRUE
           /\ procs' = [procs EXCEPT ![p] = [@ EXCEPT !.pc = "loadKeys", !.data = <<>>]]
    /\ UNCHANGED <<provider, account, submitting, causalData, loading>>
    /\ AppFrame

\* the setTimeout callbacks (2 s after success, 3 s after an error)
timerFires(p) ==
    /\ procs[p].pc = "timer"
    /\ transactionStatus' = Hidden
    /\ procs' = [procs EXCEPT ![p] = IdleProc]
    /\ UNCHANGED <<store, provider, account, submitting, causalData,
                   isRefreshing, loading>>
    /\ AppFrame

AppNext ==
    \/ \E acc \in Accounts : onWalletSelect(acc)
    \/ \E acc \in Accounts : accountsChanged(acc)
    \/ onDisconnect
    \/ loadDataClick
    \/ \E p \in ProcIds, ok \in BOOLEAN : loadKeys(p, ok)
    \/ \E p \in ProcIds, ok \in BOOLEAN : loadItem(p, ok)
    \/ \E form \in AppForms : submitData(form)
    \/ \E p \in ProcIds, ts \in AppTimestamps, ok \in BOOLEAN : submitSetData(p, ts, ok)
    \/ \E p \in ProcIds, ok \in BOOLEAN : submitGetKeys(p, ok)
    \/ \E p \in ProcIds, ok \in BOOLEAN : submitSetKeys(p, ok)
    \/ \E id \in DataIds : analyzeData(id)
    \/ \E p \in ProcIds, proof \in Proofs, ok \in BOOLEAN : analyzeGetData(p, proof, ok)
    \/ \E p \in ProcIds, ok \in BOOLEAN : analyzeSetData(p, ok)
    \/ \E p \in ProcIds : timerFires(p)


Init == ContractInit /\ EncIdle /\ AppIdle
Next == ContractNext
Spec == Init /\ [][Next]_vars

EncSpecInit == EncInit /\ ContractInit /\ AppIdle
EncSpecNext == EncodeStep
EncSpec == EncSpecInit /\ [][EncSpecNext]_vars

AppSpecInit == AppInit /\ ContractInit /\ EncIdle
AppSpecNext == AppNext
AppSpec == AppSpecInit /\ [][AppSpecNext]_vars

(***************************************************************************)
(* Claims about the contract (checked under Spec).                         *)
(***************************************************************************)
Submitted(d) == 1 <= d /\ d <= datasetCount

ModelRequests == {r \in RequestIds : issued[r][1] = "model"}

\* C4: the pair decryptModelComponent derives for a request id is the
\* (datasetId, modelComponent) of the requestModelDecryption call that issued
\* it, and distinct pairs are stored as distinct composites.
C4_CompositeRoundTrip ==
    /\ \A r \in ModelRequests :
           decryptModelComponentLocals(r) = <<issued[r][2], issued[r][3]>>
    /\ \A r1, r2 \in ModelRequests :
           <<issued[r1][2], issued[r1][3]>> # <<issued[r2][2], issued[r2][3]>>
               => requestToDatasetId[r1] # requestToDatasetId[r2]

\* C4 witness: two model requests with different pairs are recorded, one of
\* them for a non-zero dataset and a non-zero component.
C4_Witness ==
    \E r1, r2 \in ModelRequests :
        /\ issued[r1] = <<"model", 1, 2>>
        /\ issued[r2][2] = 0 /\ issued[r2][3] = 2

\* C6 (as claimed): once a causal model is stored for a datasetId, no later
\* call changes causalModels[datasetId].
C6_ModelImmutable ==
    [][\A d \in ArgIds : hasCausalModel(d) => causalModels'[d] = causalModels[d]]_vars

\* C9 (as claimed): a dataset is marked revealed only in response to a request
\* id that requestDatasetDecryption issued for it, so every revealed id has
\* such a request.
C9_RevealOnlyByDatasetRequest ==
    \A k \in Keys :
        decryptedDatasets[k].isRevealed
            => \E r \in RequestIds : issued[r] = <<"dataset", k>>

\* C10: once a submitted dataset is revealed, every decryptDataset for a
\* request id mapped to it and every requestDatasetDecryption for it reverts
\* with "Already decrypted"; its revealed fields are never written again and
\* DatasetDecrypted is not emitted for it again.
C10_RevertsOnceRevealed ==
    \A d \in Keys :
        Submitted(d) /\ decryptedDatasets[d].isRevealed =>
            /\ \A r \in RequestIds, valid \in BOOLEAN :
                   requestToDatasetId[r] = d
                       => decryptDatasetOutcome(r, valid) = "Already decrypted"
            /\ \A s \in Callers :
                   d \in ArgIds
                       => requestDatasetDecryptionOutcome(s, d) = "Already decrypted"

C10_NoSecondDecryption ==
    \A d \in Keys :
        /\ Submitted(d) /\ decryptedDatasets[d].isRevealed =>
               /\ decryptedDatasets'[d] = decryptedDatasets[d]
               /\ decryptedEmits'[d] = decryptedEmits[d]
        /\ decryptedEmits'[d] # decryptedEmits[d] =>
               /\ ~decryptedDatasets[d].isRevealed
               /\ decryptedDatasets'[d].isRevealed
               /\ decryptedEmits'[d] = decryptedEmits[d] + 1

UnissuedOrZero ==
    {r \in RequestIds : issued[r] = <<"none">> \/ issued[r] = <<"dataset", 0>>}

\* C11, the outcome: decryptDataset for such a request id reverts with
\* "Invalid request", whatever the cleartexts and the proof.
C11_Outcome ==
    \A r \in UnissuedOrZero, valid \in BOOLEAN :
        decryptDatasetOutcome(r, valid) = "Invalid request"

\* C11, the step: a decryptDataset for such a request id changes no storage
\* and emits nothing.
C11_Step ==
    \A r \in UnissuedOrZero, res \in Cleartexts, valid \in BOOLEAN :
        decryptDataset(r, res, valid) => UNCHANGED <<storage, events>>

\* C11: decryptDataset called with a request id that was never issued, or
\* that requestDatasetDecryption(0) issued, reverts with "Invalid request" and
\* leaves the contract storage unchanged.
C11_InvalidRequest == []C11_Outcome /\ [][C11_Step]_vars

\* C11 witness: requestDatasetDecryption(0) has issued a request id, another
\* request id was never issued, and dataset id 0 is not revealed.
C11_Witness ==
    /\ \E r1, r2 \in RequestIds :
           /\ issued[r1] = <<"dataset", 0>>
           /\ requestToDatasetId[r1] = 0
           /\ issued[r2] = <<"none">>
    /\ <<"DecryptionRequested", 0>> \in events
    /\ ~decryptedDatasets[0].isRevealed

\* C12, the state: encryptedDatasets[i].id is i for the ids 1 .. datasetCount
\* and 0 for every other i.
C12_Dense ==
    \A i \in Keys :
        encryptedDatasets[i].id = IF Submitted(i) THEN i ELSE 0

\* C12, the step: submitEncryptedDataset adds 1 to datasetCount and stores its
\* arguments under the new datasetCount; nothing else changes datasetCount,
\* and a dataset that exists is not written again.
C12_Step ==
    /\ \A s \in Callers, enc \in DatasetInputs, ts \in Timestamps :
           submitEncryptedDataset(s, enc, ts) =>
               /\ datasetCount' = datasetCount + 1
               /\ encryptedDatasets'[datasetCount'] =
                      [id |-> datasetCount', encryptedVariables |-> enc[1],
                       encryptedObservations |-> enc[2],
                       encryptedMetadata |-> enc[3], timestamp |-> ts]
               /\ <<"DatasetSubmitted", datasetCount', ts>> \in events'
    /\ datasetCount' # datasetCount =>
           \E s \in Callers, enc \in DatasetInputs, ts \in Timestamps :
               submitEncryptedDataset(s, enc, ts)
    /\ \A i \in Keys :
           encryptedDatasets[i].id # 0 => encryptedDatasets'[i] = encryptedDatasets[i]

C13_OnlyOwnerSucceeds ==
    \A s \in Callers, d \in ArgIds :
        Submitted(d) =>
            /\ requestDatasetDecryptionOutcome(s, d) = "ok" => submitter[d] = s
            /\ requestCausalInferenceOutcome(s, d) = "ok" => submitter[d] = s
            /\ \A c \in Components :
                   requestModelDecryptionOutcome(s, d, c) = "ok" => submitter[d] = s

\* C14 (as claimed): only submitted datasets are revealed: every id whose
\* decryptedDatasets entry has isRevealed set is one of 1 .. datasetCount.
C14_OnlySubmittedRevealed ==
    \A d \in Keys : decryptedDatasets[d].isRevealed => Submitted(d)

\* C15 (as claimed): once getDecryptedDataset(d) reports isRevealed, every
\* later step leaves what it reports for d as it is.
C15_RevelationMonotonic ==
    [][\A d \in Keys :
           getDecryptedDataset(d)[4] =>
               getDecryptedDataset(d)' = getDecryptedDataset(d)]_vars

\* C16, the outcome: requestModelDecryption succeeds exactly when a model
\* with an initialized graph structure is stored for datasetId and
\* modelComponent is 0, 1 or 2; without such a model it reverts with "No model
\* available", with one and a larger component with "Invalid model component".
C16_Outcome ==
    \A s \in Callers, d \in ArgIds, c \in Components :
        LET o == requestModelDecryptionOutcome(s, d, c) IN
        /\ o = "ok" <=> hasCausalModel(d) /\ c \in {0, 1, 2}
        /\ ~hasCausalModel(d) => o = "No model available"
        /\ hasCausalModel(d) /\ c > 2 => o = "Invalid model component"

\* C16, the step: a successful call records datasetId * 10 + modelComponent
\* under the request id it is handed and nothing else; a reverting call leaves
\* requestToDatasetId and the rest of the storage unchanged.
C16_Step ==
    \A s \in Callers, d \in ArgIds, c \in Components :
        requestModelDecryption(s, d, c) =>
            IF hasCausalModel(d) /\ c \in {0, 1, 2}
            THEN /\ requestToDatasetId' =
                        [requestToDatasetId EXCEPT ![counterRequest] = d * 10 + c]
                 /\ counterRequest' = counterRequest + 1
                 /\ UNCHANGED <<datasetCount, encryptedDatasets, decryptedDatasets,
                                causalModels>>
            ELSE UNCHANGED <<storage, counterRequest, events>>

\* C16: requestModelDecryption records a request-id mapping only for a stored,
\* initialized model and a component 0, 1 or 2, and otherwise reverts with
\* the reason of the failing check and changes nothing.
C16_ModelRequestGuarded == []C16_Outcome /\ [][C16_Step]_vars

\* C16 witness: a model request for dataset 1 is recorded while the model
\* stored for dataset 0 has no initialized graph structure.
C16_Witness ==
    /\ \E r \in RequestIds :
           issued[r] = <<"model", 1, 1>> /\ requestToDatasetId[r] = 11
    /\ hasCausalModel(1)
    /\ ~hasCausalModel(0)
    /\ causalModels[0].encryptedCausalEffects = 7

\* C17, the outcome: requestCausalInference(d) reverts with "Dataset not
\* found" exactly when d is not one of the submitted ids 1 .. datasetCount,
\* and succeeds otherwise.
C17_Outcome ==
    \A s \in Callers, d \in ArgIds :
        /\ requestCausalInferenceOutcome(s, d) = "Dataset not found" <=> ~Submitted(d)
        /\ requestCausalInferenceOutcome(s, d) = "ok" <=> Submitted(d)

\* C17, the step: a successful call emits InferenceRequested(d) and nothing
\* else, a reverting call emits nothing, and neither changes the storage.
C17_Step ==
    \A s \in Callers, d \in ArgIds :
        requestCausalInference(s, d) =>
            /\ UNCHANGED <<storage, counterRequest>>
            /\ events' = IF Submitted(d) THEN events \cup {<<"InferenceRequested", d>>}
                         ELSE events

\* C17: requestCausalInference(d) reverts with "Dataset not found" exactly
\* when no dataset with id d was submitted; when it succeeds it emits
\* InferenceRequested(d) and changes no contract storage.
C17_InferenceRequest == []C17_Outcome /\ [][C17_Step]_vars

\* C17 witness: InferenceRequested(1) was emitted for the submitted dataset 1
\* and never for the id 0.
C17_Witness ==
    /\ Submitted(1)
    /\ <<"InferenceRequested", 1>> \in events
    /\ <<"InferenceRequested", 0>> \notin events
    /\ encryptedDatasets[0].id = 0

(***************************************************************************)
(* Claims about the encoding (checked under EncSpec).                      *)
(***************************************************************************)
\* C5: whenever the encoding step succeeds, what it yields is "FHE-" followed
\* by the base64 of the JSON of the form value, and stripping the prefix and
\* base64-decoding gives back exactly that JSON text.
C5_EncodingReversible ==
    encOutput[1] = "ok" =>
        /\ SubSeq(encOutput[2], 1, Len(FHEPrefix)) = FHEPrefix
        /\ StripPrefix(encOutput[2]) = B64Encode(JSONstringifyForm(encInput))
        /\ B64Decode(StripPrefix(encOutput[2])) = JSONstringifyForm(encInput)

\* C5 witness: a form value whose text needs escaping and padding was encoded.
C5_Witness ==
    /\ encOutput[1] = "ok"
    /\ encInput.variables = <<34, 255>>
    /\ encInput.description = <<92>>

\* C8 (as claimed): the record submitData writes does not tell apart two form
\* values that differ only in the text of their variables: whatever was
\* encoded, any other such form value would have given the same record.
C8_PlaintextHidden ==
    encOutput[1] = "ok" =>
        \A f \in EncForms :
            f.description = encInput.description /\ EncryptForm(f)[1] = "ok"
                => \A ts \in AppTimestamps, acct \in Accounts :
                       SubmitRecord(EncryptForm(f)[2], ts, acct)
                           = SubmitRecord(encOutput[2], ts, acct)

(***************************************************************************)
(* Claims about the dashboard (checked under AppSpec).                     *)
(***************************************************************************)
\* the object stored under data_<id> in the store st; <<>> when the key is empty
RecordIn(st, id) == IF st[DataKey(id)] = <<>> THEN <<>> ELSE JSONparse(st[DataKey(id)])

\* obj has a field called name, and it holds v
Has(obj, name) == \E i \in 1 .. Len(obj) : obj[i][1] = name
FieldIs(obj, name, v) == Has(obj, name) /\ Get(obj, name) = v

\* the rows of list that show the record rec under the key id
RowsOf(list, id, rec) ==
    {i \in 1 .. Len(list) :
        /\ list[i].id = id
        /\ FieldIs(rec, "variables", list[i].encryptedVariables)
        /\ FieldIs(rec, "institution", list[i].institution)
        /\ FieldIs(rec, "timestamp", list[i].timestamp)
        /\ FieldIs(rec, "status", list[i].status)}

\* C1, the call: with a wallet connected and a form value that encodes,
\* submitData starts with the account of the moment of the call and "FHE-"
\* followed by the base64 of the JSON of the form value.
C1_Call ==
    \A form \in AppForms :
        submitData(form) /\ provider /\ EncryptForm(form)[1] = "ok" =>
            \E p \in ProcIds :
                /\ procs[p].kind = "idle"
                /\ procs'[p].kind = "submit"
                /\ procs'[p].acct = account
                /\ procs'[p].enc = FHEPrefix \o B64Encode(JSONstringifyForm(form))

\* C1, the first write: a fresh key data_<id> gets a record with status
\* "pending", that account as institution and the encoded variables; no other
\* key is written.
C1_RecordWrite ==
    \A p \in ProcIds, ts \in AppTimestamps :
        submitSetData(p, ts, TRUE) =>
            LET id == procs'[p].id
                rec == RecordIn(store', id)
            IN /\ id \in DataIds
               /\ store[DataKey(id)] = <<>>
               /\ FieldIs(rec, "status", "pending")
               /\ FieldIs(rec, "institution", procs[p].acct)
               /\ FieldIs(rec, "variables", procs[p].enc)
               /\ FieldIs(rec, "timestamp", ts)
               /\ \A k \in StoreKeys \ {DataKey(id)} : store'[k] = store[k]

\* C1, the second write: data_keys becomes the key list it held with <id>
\* appended, the record is still as written, and loadData is called.
C1_KeysWrite ==
    \A p \in ProcIds :
        submitSetKeys(p, TRUE) =>
            LET id == procs[p].id
                rec == RecordIn(store', id)
            IN /\ store'[KeysKey]
                      = JSONstringifyArray(Append(ParseKeys(store[KeysKey]), id))
               /\ \A k \in StoreKeys \ {KeysKey} : store'[k] = store[k]
               /\ FieldIs(rec, "status", "pending")
               /\ FieldIs(rec, "institution", procs[p].acct)
               /\ FieldIs(rec, "variables", procs[p].enc)
               /\ procs'[p].pc = "loadKeys"
               /\ procs'[p].id = id

\* C1, the following loadData: it walks the key list of the store, every
\* record it reads is put on its list with the stored fields, no row is
\* dropped on the way, and the finished list is what causalData shows.
C1_LoadLists ==
    /\ \A p \in ProcIds :
           loadKeys(p, TRUE) /\ ParseKeys(store[KeysKey]) # <<>> =>
               /\ procs'[p].keys = ParseKeys(store[KeysKey])
               /\ procs'[p].idx = 1
    /\ \A p \in ProcIds :
           procs[p].pc = "loadItem" =>
               LET key == procs[p].keys[procs[p].idx]
                   rec == RecordIn(store, key)
                   listed == IF procs'[p].pc = "loadItem" THEN procs'[p].list
                             ELSE causalData'
               IN /\ loadItem(p, TRUE) /\ rec # <<>> => RowsOf(listed, key, rec) # {}
                  /\ procs'[p] # procs[p] =>
                         /\ \A i \in 1 .. Len(procs[p].list) :
                                \E j \in 1 .. Len(listed) : listed[j] = procs[p].list[i]
                         /\ procs'[p].pc = "loadItem" =>
                                /\ procs'[p].keys = procs[p].keys
                                /\ procs'[p].idx = procs[p].idx + 1

\* C1: every step of submitData and of the loadData it calls does what the
\* four parts above say: the record is written as pending with the account
\* and the encoding of the call, the id is appended to data_keys, and the
\* following loadData lists the record.
C1_SubmitWritesAndLists ==
    [][C1_Call /\ C1_RecordWrite /\ C1_KeysWrite /\ C1_LoadLists]_vars

\* C1 witness: the loadData that submitData called after appending a second id
\* to a non-empty key list has finished and lists the new record as pending.
C1_Witness ==
    /\ ParseKeys(store[KeysKey]) = <<1, 2>>
    /\ Get(RecordIn(store, 2), "status") = "pending"
    /\ Get(RecordIn(store, 2), "institution") \in Accounts
    /\ RowsOf(causalData, 2, RecordIn(store, 2)) # {}
    /\ Len(causalData) = 2

\* C2: a successful analyzeData(id) rewrites data_<id>, which exists, with
\* status "analyzed" and an fheProof FHE-Proof-<random>, keeps its variables,
\* timestamp and institution, and writes no other key; an analyzeData that
\* fails, and every other step of analyzeData, writes nothing.
C2_Rewrite ==
    \A p \in ProcIds :
        /\ analyzeSetData(p, TRUE) =>
               LET id == procs[p].id
                   old == RecordIn(store, id)
                   new == RecordIn(store', id)
               IN /\ old # <<>>
                  /\ FieldIs(new, "status", "analyzed")
                  /\ Get(new, "fheProof") \in Proofs
                  /\ \A name \in {"variables", "timestamp", "institution"} :
                         /\ Has(old, name)
                         /\ FieldIs(new, name, Get(old, name))
                  /\ \A k \in StoreKeys \ {DataKey(id)} : store'[k] = store[k]
        /\ analyzeSetData(p, FALSE) => store' = store
        /\ \A proof \in Proofs, ok \in BOOLEAN :
               analyzeGetData(p, proof, ok) => store' = store

\* C2: every step of analyzeData keeps to C2_Rewrite, and the call of
\* analyzeData itself writes nothing.
C2_AnalyzeFrame ==
    [][C2_Rewrite /\ \A id \in DataIds : analyzeData(id) => store' = store]_vars

\* C2 witness: an analyzeData has just rewritten record 1 as analyzed while a
\* second record and the key list of both are in the store.
C2_Witness ==
    /\ \E p \in ProcIds :
           procs[p].kind = "analyze" /\ procs[p].pc = "loadKeys" /\ procs[p].id = 1
    /\ Get(RecordIn(store, 1), "status") = "analyzed"
    /\ Get(RecordIn(store, 1), "fheProof") \in Proofs
    /\ Get(RecordIn(store, 1), "variables") = EncryptForm(
           [variables |-> <<97>>, description |-> <<>>])[2]
    /\ RecordIn(store, 2) # <<>>
    /\ ParseKeys(store[KeysKey]) = <<1, 2>>

\* C3: while provider is null, a call of submitData or analyzeData changes
\* neither the store nor submitting nor transactionStatus and starts nothing
\* that would read or write the store; no submitData or analyzeData gets under
\* way in a step taken while provider is null.
C3_NoOp ==
    /\ \A form \in AppForms :
           submitData(form) =>
               UNCHANGED <<store, submitting, transactionStatus, procs>>
    /\ \A id \in DataIds :
           analyzeData(id) =>
               UNCHANGED <<store, submitting, transactionStatus, procs>>
    /\ \A p \in ProcIds :
           procs[p].kind = "idle" => procs'[p].kind \notin {"submit", "analyze"}
    /\ submitting' => submitting

\* C3: every step taken while provider is null keeps to C3_NoOp.
C3_NoWalletNoOp == [][~provider => C3_NoOp]_vars

\* C3 witness: no wallet is connected while the Submit button and the Analyze
\* button of a pending row of the own institution can be clicked.
C3_Witness ==
    /\ ~provider
    /\ ~loading
    /\ ~submitting
    /\ FreeSlots # {}
    /\ \E i \in 1 .. Len(causalData) :
           /\ causalData[i].status = "pending"
           /\ isInstitution(causalData[i].institution)

\* C7 (as claimed): once a record is stored with status "analyzed", no later
\* step changes its status or its fheProof.
C7_AnalysisImmutable ==
    [][\A id \in DataIds :
           Get(RecordIn(store, id), "status") = "analyzed" =>
               /\ Get(RecordIn(store', id), "status") = "analyzed"
               /\ Get(RecordIn(store', id), "fheProof")
                      = Get(RecordIn(store, id), "fheProof")]_vars

====
